---- MODULE Spec2Model ----
(***************************************************************************)
(* Model of purge_gmail.py: the argument checks of main, get_service, the  *)
(* list_message_ids generator, chunks, process_batch and the driver loop   *)
(* of main with its threshold flush and final flush.                       *)
(*                                                                         *)
(* The remote system is the environment: every list call answers with a   *)
(* page of records (each with or without an "id") and with or without a   *)
(* nextPageToken, or fails with HttpError; every batch call succeeds or    *)
(* fails with HttpError.  `calls` is the trace of remote calls and sleeps. *)
(*                                                                         *)
(* Sizes are scaled: the flush threshold 5000 (line 140), the batch-size   *)
(* limit 1000 (line 121) and the page size 500 (line 57) are represented   *)
(* by FlushThreshold, MaxBatchSize and MaxPageLen.                         *)
(***************************************************************************)
EXTENDS Integers, Sequences, FiniteSets, TLC

\* ---- bounds ----
FlushThreshold == 4      \* stands for the 5000 of `len(buffered) >= 5000`
MaxBatchSize == 3        \* stands for the 1000 of `1 <= batch_size <= 1000`
MaxPageLen == 2          \* records per remote page (maxResults)
MaxPages == 4            \* list calls the remote answers before it runs out of pages
MaxCap == 3              \* largest --max tried
MaxMissing == 1          \* records without an "id" the remote returns in a run
MaxLen == 4              \* longest list handed to chunks on its own
MaxSize == 5             \* largest size handed to chunks on its own

VARIABLES cfg, pc, authAttempted, resp, idx, fetched, nextId, missing,
          ltotal, buffered, total, gi, flushKind, flushStart, produced,
          calls, yielded, interrupted, exitCode

vars == <<cfg, pc, authAttempted, resp, idx, fetched, nextId, missing,
          ltotal, buffered, total, gi, flushKind, flushStart, produced,
          calls, yielded, interrupted, exitCode>>

None == 0                \* Python None / absent field; real ids are 1, 2, ...
NoQuery == "None"         \* --query not given (default None, line 99)
NoExit == -1             \* the process is still running

Min(a, b) == IF a < b THEN a ELSE b

\* ---- chunks (lines 72-74) ----
RECURSIVE RangeDropsTail(_, _, _)
\* a range that stops before a last, partial step
RangeDropsTail(start, stop, step) ==
    IF start + step > stop THEN <<>>
    ELSE <<start>> \o RangeDropsTail(start + step, stop, step)

RECURSIVE Range(_, _, _)
\* range(start, stop, step) for step >= 1, as the sequence of its values
Range(start, stop, step) ==
    IF start >= stop THEN <<>>
    ELSE <<start>> \o Range(start + step, stop, step)

\* a slice one element too long: seq[i:i + size + 1]
SliceOverlap(seq, i, size) == SubSeq(seq, i + 1, Min(i + size + 1, Len(seq)))

\* seq[i:i + size] with a 0-based i
Slice(seq, i, size) == SubSeq(seq, i + 1, Min(i + size, Len(seq)))

\* the groups chunks(seq, size) yields, in order
chunks(seq, size) ==
    LET starts == Range(0, Len(seq), size)
    IN  [k \in 1..Len(starts) |-> Slice(seq, starts[k], size)]

\* ---- process_batch (lines 76-93) ----
\* a process_batch that soft-deletes whatever the mode
process_batchAlwaysTrash(mode) == "batchModify"

\* the remote operation process_batch invokes for a mode
process_batch(mode) ==
    IF mode = "trash" THEN "batchModify"
    ELSE IF mode = "delete" THEN "batchDelete"
    ELSE "ValueError"

Call(op, ids, ok) == [op |-> op, ids |-> ids, ok |-> ok]

\* ---- decisions of the lister and of main ----
\* the cap test with > in place of >=
CapReachedLate(max_count, n) == max_count # 0 /\ n > max_count

\* `max_count and total >= max_count` (line 61)
CapReached(max_count, n) == max_count # 0 /\ n >= max_count

\* a threshold test that fires one identifier early
NeedsFlushEarly(buf) == Len(buf) >= FlushThreshold - 1

\* `len(buffered) >= 5000` (line 140)
NeedsFlush(buf) == Len(buf) >= FlushThreshold

\* a flush that ignores --dry-run
LiveFlushAlways(c) == TRUE

\* the else branch of `if args.dry_run` (lines 141-146, 151-156)
LiveFlush(c) == ~c.dry_run

\* a flush loop without its time.sleep
PaceSkipped(trace, ms) == trace

\* time.sleep returning (lines 146, 156), recorded in the trace
Pace(trace, ms) == Append(trace, Call("sleep", <<>>, TRUE))

ErrorStatus == 1         \* sys.exit(1), line 169
InterruptStatus == 130   \* sys.exit(130), line 172

\* an HttpError that is swallowed: main carries on at cont
OutcomeSwallowed(ok, cont) == [pc |-> cont, exit |-> NoExit]

\* where a remote call leaves main: on success at position cont; an
\* HttpError propagates to the handler of lines 163-169
Outcome(ok, cont) ==
    IF ok THEN [pc |-> cont, exit |-> NoExit]
    ELSE [pc |-> "done", exit |-> ErrorStatus]

\* ---- run configuration (argparse, lines 96-114) ----
Configs ==
    [all : BOOLEAN, query : {NoQuery, "", "q"}, dry_run : BOOLEAN,
     batch_size : 0..(MaxBatchSize + 1), max : (-1)..MaxCap,
     mode : {"trash", "delete"}, sleep_ms : {-1, 250}]

\* `not args.all and not args.query` (line 116)
NoTarget(c) == ~c.all /\ c.query \in {NoQuery, ""}
\* the range check without its upper limit
BadBatchSizeNoUpper(c) == ~(1 <= c.batch_size)

\* `not (1 <= args.batch_size <= 1000)` (line 121)
BadBatchSize(c) == ~(1 <= c.batch_size /\ c.batch_size <= MaxBatchSize)

\* ---- remote pages ----
RECURSIVE CountIds(_, _)
CountIds(flags, k) ==
    IF k = 0 THEN 0 ELSE CountIds(flags, k - 1) + (IF flags[k] THEN 1 ELSE 0)

\* the records of a page: flags[k] says whether record k carries an id;
\* ids are handed out in increasing order starting at base
Records(flags, base) ==
    [k \in 1..Len(flags) |-> IF flags[k] THEN base + CountIds(flags, k) - 1 ELSE None]

PageFlags == UNION {[1..n -> BOOLEAN] : n \in 0..MaxPageLen}

NoResp == [messages |-> <<>>, nextPageToken |-> FALSE]

Init ==
    /\ cfg \in Configs
    /\ pc = "start"
    /\ authAttempted = FALSE
    /\ resp = NoResp
    /\ idx = 0
    /\ fetched = 0
    /\ nextId = 1
    /\ missing = 0
    /\ ltotal = 0
    /\ buffered = <<>>
    /\ total = 0
    /\ gi = 0
    /\ flushKind = "none"
    /\ flushStart = 0
    /\ produced = <<>>
    /\ calls = <<>>
    /\ yielded = <<>>
    /\ interrupted = FALSE
    /\ exitCode = NoExit

Exit(code) == pc' = "done" /\ exitCode' = code

\* main, lines 116-123: the two argument checks
Validate ==
    /\ pc = "start"
    /\ IF NoTarget(cfg) \/ BadBatchSize(cfg) THEN Exit(2)
       ELSE pc' = "auth" /\ UNCHANGED exitCode
    /\ UNCHANGED <<cfg, authAttempted, resp, idx, fetched, nextId, missing, ltotal,
                   buffered, total, gi, flushKind, flushStart, produced, calls, yielded, interrupted>>

\* get_service (lines 17-41), called at line 131: a service, or
\* sys.exit(1) when credentials.json is missing
Authenticate ==
    /\ pc = "auth"
    /\ authAttempted' = TRUE
    /\ \E ok \in BOOLEAN :
         IF ok THEN pc' = "list" /\ UNCHANGED exitCode ELSE Exit(1)
    /\ UNCHANGED <<cfg, resp, idx, fetched, nextId, missing, ltotal,
                   buffered, total, gi, flushKind, flushStart, produced, calls, yielded, interrupted>>

\* list_message_ids, lines 52-58: one remote list call
ListCall ==
    /\ pc = "list"
    /\ fetched < MaxPages
    /\ fetched' = fetched + 1
    /\ \/ /\ calls' = Append(calls, Call("list", <<>>, FALSE))
          /\ pc' = Outcome(FALSE, "page").pc
          /\ exitCode' = Outcome(FALSE, "page").exit
          /\ UNCHANGED <<resp, idx, nextId, missing>>
       \/ \E flags \in PageFlags, tok \in BOOLEAN :
            LET n == CountIds(flags, Len(flags)) IN
            /\ tok => fetched + 1 < MaxPages
            /\ missing + (Len(flags) - n) <= MaxMissing
            /\ calls' = Append(calls, Call("list", <<>>, TRUE))
            /\ resp' = [messages |-> Records(flags, nextId), nextPageToken |-> tok]
            /\ idx' = 0
            /\ nextId' = nextId + n
            /\ missing' = missing + (Len(flags) - n)
            /\ pc' = Outcome(TRUE, "page").pc
            /\ exitCode' = Outcome(TRUE, "page").exit
    /\ UNCHANGED <<cfg, authAttempted, ltotal, buffered, total, gi, flushKind,
                   flushStart, produced, yielded, interrupted>>

\* one iteration of `for m in resp.get("messages", [])` (lines 60-70)
\* together with the body of main's loop for a yielded id (lines 138-148)
PageStep ==
    /\ pc = "page"
    /\ IF idx >= Len(resp.messages)
       THEN \* lines 68-70
            /\ pc' = IF resp.nextPageToken THEN "list" ELSE "final"
            /\ UNCHANGED <<idx, ltotal, buffered, total, gi, flushKind, flushStart, yielded>>
       ELSE IF CapReached(cfg.max, ltotal)
       THEN \* lines 61-62
            /\ pc' = "final"
            /\ UNCHANGED <<idx, ltotal, buffered, total, gi, flushKind, flushStart, yielded>>
       ELSE LET msg_id == resp.messages[idx + 1] IN
            /\ idx' = idx + 1
            /\ IF msg_id = None
               THEN /\ pc' = "page"
                    /\ UNCHANGED <<ltotal, buffered, total, gi, flushKind, flushStart, yielded>>
               ELSE /\ ltotal' = ltotal + 1
                    /\ yielded' = Append(yielded, msg_id)
                    /\ total' = total + 1
                    /\ IF NeedsFlush(Append(buffered, msg_id))
                       THEN IF LiveFlush(cfg)
                            THEN /\ buffered' = Append(buffered, msg_id)
                                 /\ pc' = "flush"
                                 /\ gi' = 1
                                 /\ flushKind' = "threshold"
                                 /\ flushStart' = Len(produced)
                            ELSE /\ buffered' = <<>>
                                 /\ pc' = "page"
                                 /\ UNCHANGED <<gi, flushKind, flushStart>>
                       ELSE /\ buffered' = Append(buffered, msg_id)
                            /\ pc' = "page"
                            /\ UNCHANGED <<gi, flushKind, flushStart>>
    /\ UNCHANGED <<cfg, authAttempted, resp, fetched, nextId, missing, produced,
                   calls, interrupted, exitCode>>

\* main, lines 150-158: the final flush once the lister is exhausted
FinalFlush ==
    /\ pc = "final"
    /\ IF buffered # <<>> /\ LiveFlush(cfg)
       THEN /\ pc' = "flush"
            /\ gi' = 1
            /\ flushKind' = "final"
            /\ flushStart' = Len(produced)
            /\ UNCHANGED exitCode
       ELSE /\ Exit(0)
            /\ UNCHANGED <<gi, flushKind, flushStart>>
    /\ UNCHANGED <<cfg, authAttempted, resp, idx, fetched, nextId, missing, ltotal,
                   buffered, total, produced, calls, yielded, interrupted>>

\* one iteration of `for group in chunks(buffered, args.batch_size)`:
\* process_batch (lines 145, 155), or the end of the loop (lines 147-148, 158)
FlushStep ==
    /\ pc = "flush"
    /\ LET groups == chunks(buffered, cfg.batch_size) IN
       IF gi > Len(groups)
       THEN /\ IF flushKind = "threshold"
               THEN buffered' = <<>> /\ pc' = "page" /\ UNCHANGED exitCode
               ELSE Exit(0) /\ UNCHANGED buffered
            /\ UNCHANGED <<produced, calls>>
       ELSE /\ produced' = Append(produced, groups[gi])
            /\ \E ok \in BOOLEAN :
                 /\ calls' = Append(calls, Call(process_batch(cfg.mode), groups[gi], ok))
                 /\ pc' = Outcome(ok, "sleep").pc
                 /\ exitCode' = Outcome(ok, "sleep").exit
            /\ UNCHANGED buffered
    /\ UNCHANGED <<cfg, authAttempted, resp, idx, fetched, nextId, missing, ltotal,
                   total, gi, flushKind, flushStart, yielded, interrupted>>

\* time.sleep(args.sleep_ms / 1000.0) (lines 146, 156); a negative
\* length raises ValueError, which main does not catch: exit status 1
Sleep ==
    /\ pc = "sleep"
    /\ IF cfg.sleep_ms < 0
       THEN Exit(1) /\ UNCHANGED <<calls, gi>>
       ELSE /\ calls' = Pace(calls, cfg.sleep_ms)
            /\ gi' = gi + 1
            /\ pc' = "flush"
            /\ UNCHANGED exitCode
    /\ UNCHANGED <<cfg, authAttempted, resp, idx, fetched, nextId, missing, ltotal,
                   buffered, total, flushKind, flushStart, produced, yielded, interrupted>>

\* KeyboardInterrupt inside the try block (lines 170-172)
Interrupt ==
    /\ pc \in {"auth", "list", "page", "final", "flush", "sleep"}
    /\ interrupted' = TRUE
    /\ Exit(InterruptStatus)
    /\ UNCHANGED <<cfg, authAttempted, resp, idx, fetched, nextId, missing, ltotal,
                   buffered, total, gi, flushKind, flushStart, produced, calls, yielded>>

Next ==
    \/ Validate
    \/ Authenticate
    \/ ListCall
    \/ PageStep
    \/ FinalFlush
    \/ FlushStep
    \/ Sleep
    \/ Interrupt

Spec == Init /\ [][Next]_vars

\* ---- chunks on its own: every list up to MaxLen, every size up to MaxSize ----
ChunkLists == UNION {[1..n -> 1..2] : n \in 0..MaxLen}

ChunksInit ==
    /\ cfg \in [all : {TRUE}, query : {NoQuery}, dry_run : {FALSE},
                batch_size : 1..MaxSize, max : {0}, mode : {"trash"},
                sleep_ms : {250}]
    /\ pc = "chunks"
    /\ buffered \in ChunkLists
    /\ gi = 1
    /\ produced = <<>>
    /\ authAttempted = FALSE
    /\ resp = NoResp
    /\ idx = 0
    /\ fetched = 0
    /\ nextId = 1
    /\ missing = 0
    /\ ltotal = 0
    /\ total = 0
    /\ flushKind = "none"
    /\ flushStart = 0
    /\ calls = <<>>
    /\ yielded = <<>>
    /\ interrupted = FALSE
    /\ exitCode = NoExit

\* the generator of lines 72-74 yields its next group
ChunkYield ==
    /\ pc = "chunks"
    /\ gi <= Len(chunks(buffered, cfg.batch_size))
    /\ produced' = Append(produced, chunks(buffered, cfg.batch_size)[gi])
    /\ gi' = gi + 1
    /\ UNCHANGED <<cfg, pc, authAttempted, resp, idx, fetched, nextId, missing, ltotal,
                   buffered, total, flushKind, flushStart, calls, yielded, interrupted,
                   exitCode>>

\* the generator of lines 72-74 is exhausted
ChunkStop ==
    /\ pc = "chunks"
    /\ gi > Len(chunks(buffered, cfg.batch_size))
    /\ pc' = "chunked"
    /\ UNCHANGED <<cfg, authAttempted, resp, idx, fetched, nextId, missing, ltotal,
                   buffered, total, gi, flushKind, flushStart, produced, calls, yielded,
                   interrupted, exitCode>>

ChunksNext == ChunkYield \/ ChunkStop

SpecChunks == ChunksInit /\ [][ChunksNext]_vars

\* ---- helpers of the properties ----
RECURSIVE Flatten(_)
Flatten(seqs) ==
    IF seqs = <<>> THEN <<>> ELSE Head(seqs) \o Flatten(Tail(seqs))

IsMutation(c) == c.op \in {"batchModify", "batchDelete"}
MutationCalls == SelectSeq(calls, IsMutation)
IdsOf(cs) == [k \in 1..Len(cs) |-> cs[k].ids]
CeilDiv(n, b) == (n + b - 1) \div b
Finished(code) == pc = "done" /\ exitCode = code

\* ---- properties ----

\* C1: in dry-run mode no mutating remote call (batchModify or batchDelete)
\* is ever issued, however often the flush threshold is crossed: the trace
\* holds listing calls only, and a finished run reports the count of the
\* identifiers listed.
C1_DryRunNeverMutates ==
    cfg.dry_run =>
        /\ \A i \in 1..Len(calls) : calls[i].op = "list"
        /\ produced = <<>>
        /\ Finished(0) => total = Len(yielded)

C1_Witness ==
    /\ cfg.dry_run
    /\ Finished(0)
    /\ total >= 2 * FlushThreshold
    /\ Len(calls) >= 2

\* C2: in live mode every batch the Batcher produces is submitted by exactly
\* one mutating call carrying that batch's identifiers, in order, none twice
\* and none skipped, and the call is batchModify for mode trash and
\* batchDelete for mode delete, never the other one.
C2_OneCallPerBatch ==
    ~cfg.dry_run =>
        /\ IdsOf(MutationCalls) = produced
        /\ \A i \in 1..Len(calls) :
             IsMutation(calls[i]) =>
                 /\ cfg.mode = "trash" => calls[i].op = "batchModify"
                 /\ cfg.mode = "delete" => calls[i].op = "batchDelete"
        /\ \A i \in 1..Len(calls) : calls[i].op \in {"list", "sleep", "batchModify", "batchDelete"}
        /\ pc \in {"flush", "sleep"} =>
             LET groups == chunks(buffered, cfg.batch_size)
                 sent == Len(produced) - flushStart
             IN  /\ sent = (IF pc = "flush" THEN gi - 1 ELSE gi)
                 /\ sent <= Len(groups)
                 /\ \A k \in 1..sent : produced[flushStart + k] = groups[k]
        /\ (Finished(0) /\ flushKind = "final") =>
             Len(produced) - flushStart = Len(chunks(buffered, cfg.batch_size))

C2_Witness ==
    /\ ~cfg.dry_run
    /\ cfg.mode = "delete"
    /\ Finished(0)
    /\ Len(MutationCalls) >= 3
    /\ flushKind = "final"

\* C3: for a list of N identifiers and a size B >= 1, chunks yields
\* ceil(N/B) batches (none when N = 0), each of 1..B identifiers, only the
\* last one possibly shorter than B, and their concatenation in the order
\* yielded is the original list.
C3_ChunksPartition ==
    LET N == Len(buffered)
        B == cfg.batch_size
    IN  /\ pc = "chunks" =>
             /\ Len(produced) <= CeilDiv(N, B)
             /\ Flatten(produced) = SubSeq(buffered, 1, Len(Flatten(produced)))
        /\ pc = "chunked" =>
             /\ Len(produced) = CeilDiv(N, B)
             /\ N = 0 => produced = <<>>
             /\ \A k \in 1..Len(produced) :
                  /\ 1 <= Len(produced[k])
                  /\ Len(produced[k]) <= B
                  /\ k < Len(produced) => Len(produced[k]) = B
             /\ Flatten(produced) = buffered

C3_Witness ==
    /\ pc = "chunked"
    /\ Len(produced) >= 2
    /\ Len(produced[Len(produced)]) < cfg.batch_size

\* C4: with a maximum greater than 0 the lister never has yielded more
\* identifiers than the maximum, so neither the driver's total nor the
\* identifiers submitted for mutation exceed it; a record without an
\* identifier is never yielded and does not count.
C4_CapBoundsYield ==
    /\ ltotal = Len(yielded)
    /\ \A i \in 1..Len(yielded) : yielded[i] # None
    /\ cfg.max > 0 =>
         /\ Len(yielded) <= cfg.max
         /\ total <= cfg.max
         /\ Len(Flatten(IdsOf(MutationCalls))) <= cfg.max

C4_Witness ==
    /\ cfg.max > 0
    /\ pc = "final"
    /\ Len(yielded) = cfg.max
    /\ missing > 0
    /\ idx < Len(resp.messages)
    /\ nextId - 1 > cfg.max

\* C5: a listing call is issued only while the previous response carried a
\* continuation token and, with a maximum greater than 0, only while fewer
\* identifiers than the maximum have been yielded.
C5_NoListingPastCap ==
    [][fetched' = fetched + 1 =>
          /\ fetched = 0 \/ resp.nextPageToken
          /\ ~(cfg.max > 0 /\ ltotal >= cfg.max)]_vars

\* C6: when a listing call fails before the buffer has ever reached the
\* flush threshold, the run ends with exit status 1 and no mutating call
\* was issued; the identifiers of the earlier pages are still buffered.
C6_ListFailureBeforeFlush ==
    (/\ calls # <<>>
     /\ calls[Len(calls)].op = "list"
     /\ ~calls[Len(calls)].ok
     /\ total < FlushThreshold) =>
        /\ Finished(1)
        /\ MutationCalls = <<>>
        /\ buffered = yielded

C6_Witness ==
    /\ ~cfg.dry_run
    /\ fetched = 2
    /\ ~calls[Len(calls)].ok
    /\ calls[Len(calls)].op = "list"
    /\ buffered # <<>>
    /\ Finished(1)

\* C7: a batch size outside 1..MaxBatchSize, or neither --all nor a
\* non-empty --query, ends the run with exit status 2 before get_service
\* is called and before any listing or mutating call.
C7_ConfigErrorExits2 ==
    (\/ cfg.batch_size < 1
     \/ cfg.batch_size > MaxBatchSize
     \/ (~cfg.all /\ cfg.query \in {NoQuery, ""})) =>
        /\ pc = "start" \/ Finished(2)
        /\ ~authAttempted
        /\ calls = <<>>

C7_Witness ==
    /\ Finished(2)
    /\ cfg.all
    /\ cfg.batch_size = MaxBatchSize + 1

\* C8: a live run that ends without error has mutated the identifiers in
\* the order the remote returned them, each exactly once: the identifier
\* lists of the mutating calls, concatenated in call order over every
\* threshold flush and the final flush, are the sequence the lister
\* yielded, and the reported total is its length.
C8_MutatedInListedOrder ==
    (~cfg.dry_run /\ Finished(0)) =>
        /\ Flatten(IdsOf(MutationCalls)) = yielded
        /\ \A i \in 1..Len(yielded) : yielded[i] = i
        /\ \A i \in 1..Len(calls) : calls[i].ok
        /\ total = Len(yielded)

C8_Witness ==
    /\ ~cfg.dry_run
    /\ Finished(0)
    /\ cfg.batch_size = 2
    /\ Len(yielded) = FlushThreshold + 3
    /\ Len(MutationCalls) = CeilDiv(FlushThreshold, 2) + 2

\* C9: a failed remote call is the last entry of the trace (no further
\* listing, mutation, retry or rollback) and ends the run with exit status
\* 1; the calls before it succeeded and stay as they were; an operator
\* interrupt ends the run with exit status 130.
C9_RemoteErrorStops ==
    /\ \A i \in 1..Len(calls) :
         ~calls[i].ok => i = Len(calls) /\ Finished(1)
    /\ interrupted => Finished(130)
    /\ exitCode = 130 => interrupted

C9_Witness ==
    /\ Finished(1)
    /\ Len(MutationCalls) >= 3
    /\ ~calls[Len(calls)].ok
    /\ IsMutation(calls[Len(calls)])
    /\ fetched >= 3

====
